---- MODULE Spec2Model ----
(***************************************************************************)
(* Model of update_example/update_santiment.py: the Santiment -> Pine Seeds *)
(* CSV updater.  Text is modelled as sequences of one-character strings so *)
(* that str.index, str.replace, sorted() and the csv reader/writer are     *)
(* computed character by character.  Files hold raw text; the platform is  *)
(* POSIX (text-mode writes are not newline-translated).  The character set *)
(* has no quote character, so csv quoting never triggers.                  *)
(***************************************************************************)
EXTENDS Integers, Sequences, FiniteSets, TLC

VARIABLES disk, pc, filename, data_json, data_dict, todo, buf, err,
          pre, last, ci, mi, stdout, raw, files0, after

vars == <<disk, pc, filename, data_json, data_dict, todo, buf, err,
          pre, last, ci, mi, stdout, raw, files0, after>>

mainVars == <<ci, mi, stdout, raw, files0, after>>

(* ---------------------------- bounds ----------------------------------- *)
MaxRecs == 2
MaxRows == 2

(* ------------------------ characters and text -------------------------- *)
CR == "\r"
LF == "\n"

\* code point of a character (Python compares str by code point)
Ord(c) ==
    CASE c = LF -> 10 [] c = CR -> 13 [] c = "," -> 44 [] c = "-" -> 45
      [] c = "." -> 46 [] c = "0" -> 48 [] c = "1" -> 49 [] c = "2" -> 50
      [] c = "3" -> 51 [] c = "4" -> 52 [] c = "5" -> 53 [] c = "6" -> 54
      [] c = "7" -> 55 [] c = "8" -> 56 [] c = "9" -> 57 [] c = ":" -> 58
      [] c = "T" -> 84 [] c = "Z" -> 90

RECURSIVE StrLess(_, _)
\* a < b on Python str
StrLess(a, b) ==
    IF b = <<>> THEN FALSE
    ELSE IF a = <<>> THEN TRUE
    ELSE IF Head(a) = Head(b) THEN StrLess(Tail(a), Tail(b))
    ELSE Ord(Head(a)) < Ord(Head(b))

\* min of a non-empty set of str
StrMin(S) == CHOOSE a \in S : \A b \in S \ {a} : StrLess(a, b)

RECURSIVE sortedReverse(_)
\* the keys in descending order
sortedReverse(S) ==
    IF S = {} THEN <<>>
    ELSE LET m == CHOOSE a \in S : \A b \in S \ {a} : StrLess(b, a)
         IN <<m>> \o sortedReverse(S \ {m})

RECURSIVE sorted(_)
\* sorted(data_dict.keys()): ascending list of the distinct keys
sorted(S) ==
    IF S = {} THEN <<>>
    ELSE LET m == StrMin(S) IN <<m>> \o sorted(S \ {m})

\* str.index(c): 0-based position of the first c; -1 stands for the
\* ValueError raised when c does not occur
index(s, c) ==
    IF \E i \in 1..Len(s) : s[i] = c
    THEN (CHOOSE i \in 1..Len(s) : s[i] = c /\ \A j \in 1..(i - 1) : s[j] # c) - 1
    ELSE -1

RECURSIVE replace(_, _)
\* str.replace(c, ""): drop every occurrence of c
replace(s, c) ==
    IF s = <<>> THEN <<>>
    ELSE IF Head(s) = c THEN replace(Tail(s), c)
    ELSE <<Head(s)>> \o replace(Tail(s), c)

\* s[:end] with a 0-based exclusive end
Slice(s, end) == SubSeq(s, 1, IF end > Len(s) THEN Len(s) ELSE end)

(* --------------------------- values ------------------------------------ *)
\* A value is what a dict slot can hold: text read from the file ("str"),
\* or a JSON number / null from the response.  A float is held in tenths.
StrVal(s)   == [t |-> "str",   n |-> 0, s |-> s]
IntVal(n)   == [t |-> "int",   n |-> n, s |-> <<>>]
FloatVal(n) == [t |-> "float", n |-> n, s |-> <<>>]
NoneVal     == [t |-> "null",  n |-> 0, s |-> <<>>]

Digit(d) == <<"0", "1", "2", "3", "4", "5", "6", "7", "8", "9">>[d + 1]

RECURSIVE NatStr(_)
NatStr(n) == IF n < 10 THEN <<Digit(n)>> ELSE NatStr(n \div 10) \o <<Digit(n % 10)>>

IntStr(n) == IF n < 0 THEN <<"-">> \o NatStr(-n) ELSE NatStr(n)

Abs(n) == IF n < 0 THEN -n ELSE n

\* repr of a float with one decimal digit
FloatStr(n) ==
    (IF n < 0 THEN <<"-">> ELSE <<>>) \o NatStr(Abs(n) \div 10) \o <<".">>
        \o <<Digit(Abs(n) % 10)>>

\* the text csv.writer emits for one field: str as is, numbers through
\* str(), None as the empty string
FieldText(v) ==
    CASE v.t = "str" -> v.s
      [] v.t = "int" -> IntStr(v.n)
      [] v.t = "float" -> FloatStr(v.n)
      [] v.t = "null" -> <<>>

(* ----------------------------- csv ------------------------------------- *)
RECURSIVE Join(_)
\* ",".join(fields)
Join(fields) ==
    IF fields = <<>> THEN <<>>
    ELSE IF Len(fields) = 1 THEN fields[1]
    ELSE fields[1] \o <<",">> \o Join(Tail(fields))

\* csv.writer.writerow: fields joined by the delimiter, terminated by \r\n
writerow(vals) == Join([i \in 1..Len(vals) |-> FieldText(vals[i])]) \o <<CR, LF>>

RECURSIVE Split(_, _)
\* s cut at every occurrence of c (always at least one piece)
Split(s, c) ==
    LET p == index(s, c) IN
    IF p = -1 THEN <<s>>
    ELSE <<SubSeq(s, 1, p)>> \o Split(SubSeq(s, p + 2, Len(s)), c)

RECURSIVE Flatten(_)
Flatten(ss) == IF ss = <<>> THEN <<>> ELSE Head(ss) \o Flatten(Tail(ss))

\* the lines, without their terminators, of a file opened with
\* open(..., "r"): newline=None reads \r\n, \r and \n as line ends; what
\* follows the last line end is a line only if it is not empty
Lines(s) ==
    LET byLF == Split(s, LF)
        n == Len(byLF)
        \* a piece that \n ended: a \r right before the \n belongs to the
        \* line end, every other \r ends a line of its own
        ended(piece) ==
            LET m == Len(piece) IN
            IF m > 0 /\ piece[m] = CR THEN Split(SubSeq(piece, 1, m - 1), CR)
            ELSE Split(piece, CR)
        \* the piece after the last \n
        rest(piece) ==
            LET parts == Split(piece, CR) IN
            IF parts[Len(parts)] = <<>> THEN SubSeq(parts, 1, Len(parts) - 1) ELSE parts
    IN Flatten([k \in 1..n |-> IF k < n THEN ended(byLF[k]) ELSE rest(byLF[k])])

\* csv.reader over a file opened for reading: one list of fields per line,
\* the empty list for a blank line
csv_reader(text) ==
    LET ls == Lines(text) IN
    [i \in 1..Len(ls) |-> IF ls[i] = <<>> THEN <<>> ELSE Split(ls[i], ",")]

(* ------------------------ program constants ---------------------------- *)
CoinInfo(slug, prefix) == [slug |-> slug, data_filename_prefix |-> prefix]

METRICS ==
    << "sentiment_negative_total", "github_activity", "dev_activity",
       "sentiment_positive_total", "sentiment_balance_total",
       "social_volume_total", "social_dominance_total",
       "unique_social_volume_total_1h" >>

COIN_INFOS == << CoinInfo("bitcoin", "btc"), CoinInfo("ethereum", "eth") >>

\* out_path of process_data_file: (prefix + "_" + metric).upper() + ".csv"
\* under data_folder.  The name is kept as the pair it is built from; upper()
\* and the concatenation are injective on the configured names.
out_path(coin_info, metric) ==
    [prefix |-> coin_info.data_filename_prefix, metric |-> metric]

FileNames ==
    {out_path(COIN_INFOS[c], METRICS[m]) : c \in 1..Len(COIN_INFOS), m \in 1..Len(METRICS)}

(* ------------------------------ files ---------------------------------- *)
Absent == [exists |-> FALSE, readable |-> FALSE, writable |-> FALSE, text |-> <<>>]
File(text) == [exists |-> TRUE, readable |-> TRUE, writable |-> TRUE, text |-> text]

(* ---------------------------- input data ------------------------------- *)
K0101  == <<"2", "0", "2", "3", "0", "1", "0", "1">>
K0101T == <<"2", "0", "2", "3", "0", "1", "0", "1", "T">>
K0102T == <<"2", "0", "2", "3", "0", "1", "0", "2", "T">>
K0504T == <<"2", "0", "2", "3", "0", "5", "0", "4", "T">>

TS0101 == <<"2", "0", "2", "3", "-", "0", "1", "-", "0", "1", "T", "0", "0", ":", "0", "0", ":", "0", "0", "Z">>
TS0102 == <<"2", "0", "2", "3", "-", "0", "1", "-", "0", "2", "T", "0", "0", ":", "0", "0", ":", "0", "0", "Z">>
TS0504 == <<"2", "0", "2", "3", "-", "0", "5", "-", "0", "4", "T", "0", "0", ":", "0", "0", ":", "0", "0", "Z">>
TSNoT  == <<"2", "0", "2", "3", "-", "0", "5", "-", "0", "4">>

\* lines an existing file may hold: a well-formed row, a row whose later
\* columns differ from its second, a two-field row with the same key and
\* another value, a one-field row and a blank line
ExistingLines ==
    { <<"2", "0", "2", "3", "0", "1", "0", "1", ",", "5", ",", "5", ",", "5", ",", "5", ",", "0">>,
      <<"2", "0", "2", "3", "0", "1", "0", "2", "T", ",", "7", ",", "9", ",", "9", ",", "9", ",", "1">>,
      <<"2", "0", "2", "3", "0", "1", "0", "2", "T", ",", "5">>,
      <<"2", "0", "2", "3", "0", "1", "0", "3", "T">>,
      <<>> }

RECURSIVE Concat(_, _)
\* the lines of ls, each followed by the terminator nl
Concat(ls, nl) == IF ls = <<>> THEN <<>> ELSE Head(ls) \o nl \o Concat(Tail(ls), nl)

SeqsUpTo(S, n) == UNION {[1..k -> S] : k \in 0..n}

ExistingTexts ==
    {Concat(ls, <<CR, LF>>) : ls \in SeqsUpTo(ExistingLines, MaxRows)}
        \cup {Concat(ls, <<LF>>) : ls \in SeqsUpTo(ExistingLines, 1)}

\* texts of the files whose permission bits deny reading or writing
ProtectedTexts == {Concat(ls, <<CR, LF>>) : ls \in SeqsUpTo(ExistingLines, 1)}

ExistingFiles ==
    {Absent} \cup {File(t) : t \in ExistingTexts}
        \cup {[File(t) EXCEPT !.readable = FALSE] : t \in ProtectedTexts}
        \cup {[File(t) EXCEPT !.writable = FALSE] : t \in ProtectedTexts}

JsonValues == {FloatVal(35), NoneVal}

DataPoint(d, v) == [datetime |-> d, value |-> v]

\* record sequences handed to save_new_data
Records == {DataPoint(d, v) : d \in {K0101T, K0102T}, v \in JsonValues}
RecordSeqs == SeqsUpTo(Records, MaxRecs)

(* -------------------------- save_new_data ------------------------------ *)
HarnessFile == out_path(COIN_INFOS[1], METRICS[1])

EmptyDict == <<>>

RECURSIVE LoadDictKeyAsValue(_, _)
\* data_dict[line[0]] = line[0]
LoadDictKeyAsValue(d, rows) ==
    IF rows = <<>> THEN d
    ELSE LoadDictKeyAsValue((Head(rows)[1] :> StrVal(Head(rows)[1])) @@ d, Tail(rows))

RECURSIVE LoadDict(_, _)
\* for line in csv.reader(file): data_dict[line[0]] = line[1]
LoadDict(d, rows) ==
    IF rows = <<>> THEN d
    ELSE LoadDict((Head(rows)[1] :> StrVal(Head(rows)[2])) @@ d, Tail(rows))

RECURSIVE MergeDictFirstWins(_, _)
\* a key already in the table is not overwritten
MergeDictFirstWins(d, points) ==
    IF points = <<>> THEN d
    ELSE MergeDictFirstWins(d @@ (Head(points).datetime :> Head(points).value), Tail(points))

RECURSIVE MergeDictDropsOld(_, _)
\* data_dict = {date: val}: the table is replaced, not updated
MergeDictDropsOld(d, points) ==
    IF points = <<>> THEN d
    ELSE MergeDictDropsOld(Head(points).datetime :> Head(points).value, Tail(points))

RECURSIVE MergeDict(_, _)
\* for data_point in data_json: data_dict[date] = val
MergeDict(d, points) ==
    IF points = <<>> THEN d
    ELSE MergeDict((Head(points).datetime :> Head(points).value) @@ d, Tail(points))

\* an exception leaves the function; the locals are gone
Raise(e) ==
    /\ pc' = "raised"
    /\ err' = e

\* the existing file is never read
LoadIgnoresFile ==
    /\ pc = "load"
    /\ data_dict' = EmptyDict
    /\ pc' = "merge"
    /\ UNCHANGED <<disk, filename, data_json, todo, buf, err, pre, last>>
    /\ UNCHANGED mainVars

\* the existing file is opened with "w+": truncated, then read
LoadOpensForWrite ==
    /\ pc = "load"
    /\ disk' = [disk EXCEPT ![filename] =
                  IF @.exists THEN [@ EXCEPT !.text = <<>>] ELSE File(<<>>)]
    /\ data_dict' = EmptyDict
    /\ pc' = "merge"
    /\ UNCHANGED <<filename, data_json, todo, buf, err, pre, last>>
    /\ UNCHANGED mainVars

\* lines 69-74: read the existing table, if there is one
Load ==
    /\ pc = "load"
    /\ LET f == disk[filename] IN
       IF ~f.exists
       THEN /\ data_dict' = EmptyDict
            /\ pc' = "merge"
            /\ err' = err
       ELSE IF ~f.readable
       THEN /\ Raise("PermissionError")
            /\ data_dict' = EmptyDict
       ELSE LET rows == csv_reader(f.text) IN
            IF \E i \in 1..Len(rows) : Len(rows[i]) < 2
            THEN /\ Raise("IndexError")
                 /\ data_dict' = EmptyDict
            ELSE /\ data_dict' = LoadDict(EmptyDict, rows)
                 /\ pc' = "merge"
                 /\ err' = err
    /\ UNCHANGED <<disk, filename, data_json, todo, buf, pre, last>>
    /\ UNCHANGED mainVars

\* lines 76-79: the new points overwrite the table
Merge ==
    /\ pc = "merge"
    /\ data_dict' = MergeDict(data_dict, data_json)
    /\ pc' = "open_w"
    /\ UNCHANGED <<disk, filename, data_json, todo, buf, err, pre, last>>
    /\ UNCHANGED mainVars

\* the file is opened with "a": nothing is truncated
OpenWAppend ==
    /\ pc = "open_w"
    /\ LET f == disk[filename] IN
       IF f.exists /\ ~f.writable
       THEN /\ Raise("PermissionError")
            /\ UNCHANGED <<disk, todo, buf>>
       ELSE /\ disk' = [disk EXCEPT ![filename] = IF f.exists THEN f ELSE File(<<>>)]
            /\ buf' = <<>>
            /\ todo' = sorted(DOMAIN data_dict)
            /\ pc' = "write"
            /\ err' = err
    /\ UNCHANGED <<filename, data_json, data_dict, pre, last>>
    /\ UNCHANGED mainVars

\* lines 81-83: open(filename, "w") creates or truncates the file; the loop
\* is set up over the sorted keys
OpenW ==
    /\ pc = "open_w"
    /\ LET f == disk[filename] IN
       IF f.exists /\ ~f.writable
       THEN /\ Raise("PermissionError")
            /\ UNCHANGED <<disk, todo, buf>>
       ELSE /\ disk' = [disk EXCEPT ![filename] =
                          IF f.exists THEN [f EXCEPT !.text = <<>>] ELSE File(<<>>)]
            /\ buf' = <<>>
            /\ todo' = sorted(DOMAIN data_dict)
            /\ pc' = "write"
            /\ err' = err
    /\ UNCHANGED <<filename, data_json, data_dict, pre, last>>
    /\ UNCHANGED mainVars

\* the row is written without its trailing 0
WriteRowNoZero ==
    /\ pc = "write"
    /\ todo # <<>>
    /\ LET date == Head(todo)
           val == data_dict[date]
       IN buf' = buf \o writerow(<<StrVal(date), val, val, val, val>>)
    /\ todo' = Tail(todo)
    /\ UNCHANGED <<disk, pc, filename, data_json, data_dict, err, pre, last>>
    /\ UNCHANGED mainVars

\* lines 83-85: one row goes to the file object's buffer
WriteRow ==
    /\ pc = "write"
    /\ todo # <<>>
    /\ LET date == Head(todo)
           val == data_dict[date]
       IN buf' = buf \o writerow(<<StrVal(date), val, val, val, val, IntVal(0)>>)
    /\ todo' = Tail(todo)
    /\ UNCHANGED <<disk, pc, filename, data_json, data_dict, err, pre, last>>
    /\ UNCHANGED mainVars

\* the buffered file object spills what it holds to the file
Flush ==
    /\ pc = "write"
    /\ buf # <<>>
    /\ disk' = [disk EXCEPT ![filename].text = @ \o buf]
    /\ buf' = <<>>
    /\ UNCHANGED <<pc, filename, data_json, data_dict, todo, err, pre, last>>
    /\ UNCHANGED mainVars

\* end of the with block of line 81: flush, close, return
Close ==
    /\ pc = "write"
    /\ todo = <<>>
    /\ disk' = [disk EXCEPT ![filename].text = @ \o buf]
    /\ buf' = <<>>
    /\ pc' = "returned"
    /\ UNCHANGED <<filename, data_json, data_dict, todo, err, pre, last>>
    /\ UNCHANGED mainVars

(* ----------------- save_new_data called on one location ---------------- *)
NoCall == [mode |-> "none", out |-> Absent]

Init ==
    /\ \E f \in ExistingFiles :
         disk = [fn \in FileNames |-> IF fn = HarnessFile THEN f ELSE Absent]
    /\ pc = "idle"
    /\ filename = HarnessFile
    /\ data_json = <<>>
    /\ data_dict = EmptyDict
    /\ todo = <<>>
    /\ buf = <<>>
    /\ err = "none"
    /\ pre = Absent
    /\ last = NoCall
    /\ ci = 1
    /\ mi = 1
    /\ stdout = <<>>
    /\ raw = <<>>
    /\ files0 = disk
    /\ after = disk

\* entry of save_new_data(R, HarnessFile); how records what the caller does:
\* a first call, the same call once more, or an empty merge after a call
Enter(R, how) ==
    /\ data_json' = R
    /\ filename' = HarnessFile
    /\ data_dict' = EmptyDict
    /\ todo' = <<>>
    /\ buf' = <<>>
    /\ pre' = disk[HarnessFile]
    /\ last' = [mode |-> how, out |-> disk[HarnessFile]]
    /\ pc' = "load"
    /\ err' = "none"
    /\ UNCHANGED disk
    /\ UNCHANGED mainVars

\* save_new_data(R, location) for some record sequence R
Call ==
    /\ pc = "idle"
    /\ \E R \in RecordSeqs : Enter(R, "first")

\* save_new_data(R, location) again, right after it returned, with the same R
CallAgain ==
    /\ pc = "returned"
    /\ Enter(data_json, "again")

\* save_new_data([], location) right after a call returned
CallEmpty ==
    /\ pc = "returned"
    /\ Enter(<<>>, "empty")

\* the caller goes on (after a return or after catching the exception)
Return ==
    /\ pc \in {"returned", "raised"}
    /\ pc' = "idle"
    /\ data_json' = <<>>
    /\ data_dict' = EmptyDict
    /\ todo' = <<>>
    /\ buf' = <<>>
    /\ pre' = Absent
    /\ last' = NoCall
    /\ err' = "none"
    /\ UNCHANGED <<disk, filename>>
    /\ UNCHANGED mainVars

Next == Call \/ CallAgain \/ CallEmpty \/ Load \/ Merge \/ OpenW \/ WriteRow \/ Flush \/ Close \/ Return

Spec == Init /\ [][Next]_vars

(* ------------------------- process_data_file, main --------------------- *)
\* timeseriesData lists the upstream source may answer with
Responses ==
    { << DataPoint(TS0504, FloatVal(35)), DataPoint(TS0101, IntVal(12)),
         DataPoint(TS0102, NoneVal) >>,
      << DataPoint(TS0101, IntVal(-4)), DataPoint(TSNoT, IntVal(1)) >> }

\* files the data folder may hold when main starts
MainFiles ==
    { Absent,
      File(Concat(<< Join(<<K0101, <<"5">>, <<"5">>, <<"5">>, <<"5">>, <<"0">> >>) >>, <<CR, LF>>)),
      File(Concat(<< K0102T >>, <<CR, LF>>)) }

\* the slice stops before the "T"
DateKeyNoT(datetime) ==
    LET end == index(datetime, "T") IN replace(Slice(datetime, end), "-")

\* lines 96-98 for one data point
DateKey(datetime) ==
    LET end == index(datetime, "T") + 1 IN replace(Slice(datetime, end), "-")

coin_info == COIN_INFOS[ci]
metric == METRICS[mi]

InitMain ==
    /\ \E f \in MainFiles, g \in MainFiles :
         disk = [fn \in FileNames |-> IF fn.prefix = "btc" THEN f ELSE g]
    /\ pc = "fetch"
    /\ filename = HarnessFile
    /\ data_json = <<>>
    /\ data_dict = EmptyDict
    /\ todo = <<>>
    /\ buf = <<>>
    /\ err = "none"
    /\ pre = Absent
    /\ last = NoCall
    /\ ci = 1
    /\ mi = 1
    /\ stdout = <<>>
    /\ raw = <<>>
    /\ files0 = disk
    /\ after = disk

\* lines 90-94: the request; a network error or a response of another
\* shape raises
Fetch ==
    /\ pc = "fetch"
    /\ \/ /\ \E e \in {"ConnectionError", "KeyError"} : Raise(e)
          /\ UNCHANGED <<data_json, raw>>
       \/ /\ \E r \in Responses : data_json' = r /\ raw' = r
          /\ pc' = "convert"
          /\ err' = err
    /\ UNCHANGED <<disk, filename, data_dict, todo, buf, pre, last, ci, mi, stdout,
                   files0, after>>

\* lines 96-104: the timestamps become date keys, save_new_data is entered
Convert ==
    /\ pc = "convert"
    /\ IF \E p \in 1..Len(data_json) : index(data_json[p].datetime, "T") = -1
       THEN /\ Raise("ValueError")
            /\ UNCHANGED <<data_json, filename, pre>>
       ELSE /\ data_json' = [p \in 1..Len(data_json) |->
                               [data_json[p] EXCEPT !.datetime = DateKey(@)]]
            /\ filename' = out_path(coin_info, metric)
            /\ pre' = disk[out_path(coin_info, metric)]
            /\ pc' = "load"
            /\ err' = err
    /\ UNCHANGED <<disk, data_dict, todo, buf, last>>
    /\ UNCHANGED mainVars

\* the loops nested the other way round: metrics outside, coins inside
UpdatedMetricsOuter ==
    /\ pc = "returned"
    /\ stdout' = Append(stdout, <<"updated", coin_info.slug, metric>>)
    /\ after' = [after EXCEPT ![filename] = disk[filename]]
    /\ IF ci < Len(COIN_INFOS)
       THEN ci' = ci + 1 /\ mi' = mi /\ pc' = "fetch"
       ELSE IF mi < Len(METRICS)
       THEN ci' = 1 /\ mi' = mi + 1 /\ pc' = "fetch"
       ELSE mi' = mi /\ ci' = ci /\ pc' = "exit"
    /\ data_json' = <<>>
    /\ data_dict' = EmptyDict
    /\ todo' = <<>>
    /\ buf' = <<>>
    /\ UNCHANGED <<disk, filename, err, pre, last, raw, files0>>

\* line 105 and the loop headers of lines 125-126
Updated ==
    /\ pc = "returned"
    /\ stdout' = Append(stdout, <<"updated", coin_info.slug, metric>>)
    /\ after' = [after EXCEPT ![filename] = disk[filename]]
    /\ IF mi < Len(METRICS)
       THEN mi' = mi + 1 /\ ci' = ci /\ pc' = "fetch"
       ELSE IF ci < Len(COIN_INFOS)
       THEN mi' = 1 /\ ci' = ci + 1 /\ pc' = "fetch"
       ELSE mi' = mi /\ ci' = ci /\ pc' = "exit"
    /\ data_json' = <<>>
    /\ data_dict' = EmptyDict
    /\ todo' = <<>>
    /\ buf' = <<>>
    /\ UNCHANGED <<disk, filename, err, pre, last, raw, files0>>

NextMain ==
    Fetch \/ Convert \/ Load \/ Merge \/ OpenW \/ WriteRow \/ Flush \/ Close \/ Updated

MainSpec == InitMain /\ [][NextMain]_vars

(* ------------------------------ properties ----------------------------- *)
\* what a reader of the file sees at the location
Rows(f) == csv_reader(f.text)
KeysOf(rows) == {rows[i][1] : i \in 1..Len(rows)}
\* the second field of the last row that has key k
ValueOf(rows, k) ==
    LET i == CHOOSE i \in 1..Len(rows) :
                 rows[i][1] = k /\ \A j \in (i + 1)..Len(rows) : rows[j][1] # k
    IN rows[i][2]
NewKeys == {data_json[p].datetime : p \in 1..Len(data_json)}
\* the value of the last record of data_json that has key k
LastNew(k) ==
    LET p == CHOOSE p \in 1..Len(data_json) :
                 data_json[p].datetime = k
                 /\ \A q \in (p + 1)..Len(data_json) : data_json[q].datetime # k
    IN data_json[p].value
InSave == pc \in {"load", "merge", "open_w", "write", "returned"}

\* C1 (as stated): every date key is the 8-character YYYYMMDD string; the
\* timestamp 2023-05-04T00:00:00Z becomes 20230504.
C1_KeyIsYYYYMMDD ==
    (InSave /\ raw # <<>>) =>
        \A p \in 1..Len(data_json) :
            /\ Len(data_json[p].datetime) = 8
            /\ raw[p].datetime = TS0504 =>
                   data_json[p].datetime = <<"2", "0", "2", "3", "0", "5", "0", "4">>

\* C1 (amended): every date key is the 9-character string YYYYMMDD followed
\* by "T": the digits of the timestamp's date and the "T" that ends it;
\* 2023-05-04T00:00:00Z becomes 20230504T, and that is the first column of
\* a row of the written file.
C1_KeyIsYYYYMMDDT ==
    (InSave /\ raw # <<>>) =>
        /\ Len(data_json) = Len(raw)
        /\ \A p \in 1..Len(data_json) :
            LET ts == raw[p].datetime
                key == data_json[p].datetime
            IN /\ key = <<ts[1], ts[2], ts[3], ts[4], ts[6], ts[7], ts[9], ts[10], "T">>
               /\ ts = TS0504 => key = K0504T
               /\ pc = "returned" => key \in KeysOf(Rows(disk[filename]))

C1_Witness ==
    /\ pc = "returned"
    /\ \E p \in 1..Len(raw) : raw[p].datetime = TS0504
    /\ K0504T \in KeysOf(Rows(disk[filename]))

\* C2: after save_new_data the value stored for each key of the new records
\* is the value of the last record with that key, whatever the file held.
C2_LastWriteWins ==
    pc = "returned" =>
        \A k \in NewKeys :
            /\ k \in KeysOf(Rows(disk[filename]))
            /\ ValueOf(Rows(disk[filename]), k) = FieldText(LastNew(k))

C2_Witness ==
    /\ pc = "returned"
    /\ \E p, q \in 1..Len(data_json) :
         /\ p < q
         /\ data_json[p].datetime = data_json[q].datetime
         /\ data_json[p].value # data_json[q].value
         /\ data_json[p].datetime \in KeysOf(Rows(pre))
         /\ ValueOf(Rows(pre), data_json[p].datetime) # FieldText(data_json[q].value)

\* what save_new_data(R) leaves in a file that held f
FileAfter(f, R) ==
    LET d == MergeDict(IF f.exists THEN LoadDict(EmptyDict, Rows(f)) ELSE EmptyDict, R)
        ks == sorted(DOMAIN d)
    IN Concat([i \in 1..Len(ks) |->
                 Join([j \in 1..6 |->
                         IF j = 1 THEN ks[i] ELSE IF j = 6 THEN <<"0">>
                         ELSE FieldText(d[ks[i]])])],
              <<CR, LF>>)

Reorderings(R) ==
    {[i \in 1..Len(R) |-> R[f[i]]] :
        f \in {g \in [1..Len(R) -> 1..Len(R)] : \A a, b \in 1..Len(R) : a # b => g[a] # g[b]}}

\* C3: after save_new_data the rows are strictly ascending by date key (so
\* no key is in two rows), and with pairwise distinct keys every permutation
\* of the new records, applied to the same existing file, gives this file.
C3_SortedUnique ==
    pc = "returned" =>
        LET rows == Rows(disk[filename]) IN
        /\ \A i \in 1..(Len(rows) - 1) : StrLess(rows[i][1], rows[i + 1][1])
        /\ Cardinality(NewKeys) = Len(data_json) =>
               \A R \in Reorderings(data_json) :
                   FileAfter(pre, R) = disk[filename].text

C3_Witness ==
    /\ pc = "returned"
    /\ Len(data_json) = 2
    /\ StrLess(data_json[2].datetime, data_json[1].datetime)
    /\ Len(Rows(pre)) = 2
    /\ StrLess(Rows(pre)[2][1], Rows(pre)[1][1])
    /\ Len(Rows(disk[filename])) >= 3

\* C4: save_new_data(R) called a second time right after the first leaves
\* the file the first call left.
C4_Idempotent ==
    (pc = "returned" /\ last.mode = "again") => disk[filename] = last.out

C4_Witness ==
    /\ pc = "returned"
    /\ last.mode = "again"
    /\ Len(data_json) = 2
    /\ data_json[1].datetime = data_json[2].datetime
    /\ Len(Rows(disk[filename])) >= 2

\* C5: save_new_data([]) right after save_new_data(R) leaves the file the
\* first call left: writing and reloading loses and alters nothing.
C5_EmptyMergeKeeps ==
    (pc = "returned" /\ last.mode = "empty") => disk[filename] = last.out

C5_Witness ==
    /\ pc = "returned"
    /\ last.mode = "empty"
    /\ Len(Rows(disk[filename])) >= 2
    /\ \E i \in 1..Len(Rows(disk[filename])) : Rows(disk[filename])[i][2] = <<>>

\* C6: every row written has six fields: the key, the value four times,
\* and 0; a key that came from the file only has the second field of its
\* old row as value, whatever the old row's other fields were.
C6_RowShape ==
    pc = "returned" =>
        LET rows == Rows(disk[filename]) IN
        \A i \in 1..Len(rows) :
            /\ Len(rows[i]) = 6
            /\ \A j \in 3..5 : rows[i][j] = rows[i][2]
            /\ rows[i][6] = <<"0">>
            /\ rows[i][2] = IF rows[i][1] \in NewKeys
                            THEN FieldText(LastNew(rows[i][1]))
                            ELSE ValueOf(Rows(pre), rows[i][1])

C6_Witness ==
    /\ pc = "returned"
    /\ \E i \in 1..Len(Rows(pre)) :
         /\ Len(Rows(pre)[i]) = 6
         /\ Rows(pre)[i][3] # Rows(pre)[i][2]
         /\ Rows(pre)[i][1] \notin NewKeys
         /\ Rows(pre)[i][1] \in KeysOf(Rows(disk[filename]))
    /\ data_json # <<>>

\* the file a successful call leaves, known once the table is merged
Merged == [(IF pre.exists THEN pre ELSE File(<<>>)) EXCEPT !.text = FileAfter(pre, data_json)]

\* C7: while a call that succeeds is writing, a reader finds at the location
\* either the file as it was before the call or the complete merged file.
C7_NoPartialWrite ==
    pc = "write" => disk[filename] \in {pre, Merged}

\* C9: the keys of the file after the call are those of the old file and of
\* the new records together, and a key of the old file that no new record
\* has keeps the second field of its old row.
C9_NothingDropped ==
    pc = "returned" =>
        LET old == IF pre.exists THEN Rows(pre) ELSE <<>>
            new == Rows(disk[filename])
        IN /\ KeysOf(new) = KeysOf(old) \cup NewKeys
           /\ \A k \in KeysOf(old) \ NewKeys : ValueOf(new, k) = ValueOf(old, k)

C9_Witness ==
    /\ pc = "returned"
    /\ data_json # <<>>
    /\ \E i, j \in 1..Len(Rows(pre)) :
         /\ i < j
         /\ Rows(pre)[i][1] = Rows(pre)[j][1]
         /\ Rows(pre)[i][2] # Rows(pre)[j][2]
         /\ Rows(pre)[i][1] \notin NewKeys
    /\ Len(Rows(disk[filename])) = 2

\* the existing file cannot be loaded: permission denied, or a row with
\* fewer than two fields
LoadFails(f) ==
    /\ f.exists
    /\ \/ ~f.readable
       \/ \E i \in 1..Len(Rows(f)) : Len(Rows(f)[i]) < 2

\* C10: when loading the existing file fails, the call raises with the file
\* exactly as it was; it is never opened for writing.
C10_LoadFailureKeepsFile ==
    /\ (InSave /\ pc # "load" /\ LoadFails(pre)) => pc = "raised"
    /\ (pc = "raised" /\ LoadFails(pre)) => disk[filename] = pre
    /\ (pc \in {"open_w", "write", "returned"}) => ~LoadFails(pre)

C10_Witness ==
    /\ pc = "raised"
    /\ err = "IndexError"
    /\ data_json # <<>>
    /\ Len(Rows(pre)) = 2
    /\ Len(Rows(pre)[1]) = 6
    /\ Rows(pre)[2] = <<>>

\* position of a pair in the order of main's loops, and the pair at a position
Pos(c, m) == (c - 1) * Len(METRICS) + m
PairAt(n) == <<((n - 1) \div Len(METRICS)) + 1, ((n - 1) % Len(METRICS)) + 1>>
PosOf(fn) ==
    CHOOSE n \in 1..(Len(COIN_INFOS) * Len(METRICS)) :
        out_path(COIN_INFOS[PairAt(n)[1]], METRICS[PairAt(n)[2]]) = fn
NoticeAt(n) == <<"updated", COIN_INFOS[PairAt(n)[1]].slug, METRICS[PairAt(n)[2]]>>
FetchFailed == pc = "raised" /\ err \in {"ConnectionError", "KeyError", "ValueError"}

\* C8: the pairs are handled one at a time in loop order (coins outside,
\* metrics inside); when a fetch fails the run ends there: the files of the
\* failing and of all later pairs are as they were, those of earlier pairs
\* keep their updated content, and only earlier pairs were announced.
C8_FetchFailureAborts ==
    LET cur == Pos(ci, mi)
        finished == IF pc = "exit" THEN cur ELSE cur - 1
    IN /\ stdout = [n \in 1..finished |-> NoticeAt(n)]
       /\ \A fn \in FileNames :
            /\ PosOf(fn) > cur => disk[fn] = files0[fn]
            /\ PosOf(fn) < cur => disk[fn] = after[fn]
            /\ (PosOf(fn) < cur /\ files0[fn] = Absent) => disk[fn] # files0[fn]
       /\ pc \in {"fetch", "convert"} => disk[out_path(coin_info, metric)] = files0[out_path(coin_info, metric)]
       /\ FetchFailed =>
            /\ disk[out_path(coin_info, metric)] = files0[out_path(coin_info, metric)]
            /\ \A n \in 1..Len(stdout) : stdout[n] # NoticeAt(cur)

C8_Witness ==
    /\ FetchFailed
    /\ err = "ConnectionError"
    /\ ci = 2
    /\ mi = 3
    /\ Len(stdout) = 10
    /\ \E fn \in FileNames : PosOf(fn) < Pos(ci, mi) /\ disk[fn] # files0[fn]

====
